---- MODULE Spec2Model ----
(***************************************************************************)
(* A model of streamlit_app.py: the CADIN lookup application.              *)
(*                                                                         *)
(* Python strings are sequences of one-character strings, so that          *)
(* only_digits, strip, upper, fmt_doc and the birth-date pattern are       *)
(* computed character by character.  JSON values are records with a type   *)
(* tag, so that Python's truthiness and the operations that only exist on  *)
(* some types (re.sub on a str, .upper() on a str, .get() on a dict,       *)
(* len() on a sized object) can raise as they do in the code.              *)
(***************************************************************************)
EXTENDS Integers, Sequences, FiniteSets, TLC

VARIABLES
    env,        \* the six configuration values read at start-up (truthiness)
    now,        \* seconds elapsed on the clock st.cache_data reads
    cache,      \* st.cache_data: the entries of the four cached fetchers
    mode,       \* the page of the session: "single" | "batch"; "fetch",
                \* "normalize", "resolve_pmsp" when the fetchers,
                \* normalize_payload, resolve_pmsp are called on their own
    pc,         \* position of the running handler
    pmsp_on,    \* the sidebar checkbox
    consent,    \* the consent checkbox of the submitted form
    doc,        \* the document being resolved (render_single: clean; batch: d)
    dtnasc,     \* the birth date handed to resolve_pmsp
    payload,    \* the local variable payload (NoPayload: None)
    fonte,      \* the local variable fonte (NoFonte: None)
    trace,      \* what the running lookup did, in order: network calls,
                \* cache hits, warnings, errors
    csv,        \* render_batch: the rows of the uploaded file
    docs,       \* render_batch: the filtered list of documents
    i,          \* render_batch: the loop counter (1-based)
    out_rows,   \* render_batch: the report rows accumulated so far
    lookups,    \* number of requests (forms, files) submitted so far
    log,        \* history of the functions called on their own: what each
                \* call did
    body        \* the raw payload handed to normalize_payload when it is
                \* called on its own

vars == <<env, now, cache, mode, pc, pmsp_on, consent, doc, dtnasc, payload,
          fonte, trace, csv, docs, i, out_rows, lookups, log, body>>

-----------------------------------------------------------------------------
(* Strings *)

Digits == {"0", "1", "2", "3", "4", "5", "6", "7", "8", "9"}

Whitespace == {" "}

\* int(c) for a digit character
DigitValue(c) ==
    CASE c = "0" -> 0 [] c = "1" -> 1 [] c = "2" -> 2 [] c = "3" -> 3
      [] c = "4" -> 4 [] c = "5" -> 5 [] c = "6" -> 6 [] c = "7" -> 7
      [] c = "8" -> 8 [] c = "9" -> 9

IsDigit(c) == c \in Digits

\* re.sub(r"\D+", "", s or "")
only_digits(s) == SelectSeq(s, IsDigit)

is_cpf(d) == Len(only_digits(d)) = 11

is_cnpj(d) == Len(only_digits(d)) = 14

label_doc(d) == IF is_cpf(d) THEN "CPF" ELSE IF is_cnpj(d) THEN "CNPJ" ELSE "Documento"

fmt_doc(s) ==
    LET d == only_digits(s) IN
    IF Len(d) = 11
    THEN SubSeq(d, 1, 3) \o <<".">> \o SubSeq(d, 4, 6) \o <<".">>
         \o SubSeq(d, 7, 9) \o <<"-">> \o SubSeq(d, 10, 11)
    ELSE IF Len(d) = 14
    THEN SubSeq(d, 1, 2) \o <<".">> \o SubSeq(d, 3, 5) \o <<".">>
         \o SubSeq(d, 6, 8) \o <<"/">> \o SubSeq(d, 9, 12) \o <<"-">>
         \o SubSeq(d, 13, 14)
    ELSE d

\* str.strip(): drop the leading and the trailing whitespace
RECURSIVE lstrip(_)
lstrip(s) == IF s # <<>> /\ Head(s) \in Whitespace THEN lstrip(Tail(s)) ELSE s

RECURSIVE rstrip(_)
rstrip(s) ==
    IF s # <<>> /\ s[Len(s)] \in Whitespace THEN rstrip(SubSeq(s, 1, Len(s) - 1)) ELSE s

strip(s) == rstrip(lstrip(s))

\* re.match(r"^\d{2}/\d{2}/\d{4}$", s): s is never ended by a newline here,
\* every caller strips it first
MatchesDate(s) ==
    /\ Len(s) = 10
    /\ \A k \in {1, 2, 4, 5, 7, 8, 9, 10} : IsDigit(s[k])
    /\ s[3] = "/"
    /\ s[6] = "/"

\* str.upper(), on the letters the payloads use
UpperChar(c) ==
    CASE c = "r" -> "R" [] c = "e" -> "E" [] c = "g" -> "G" [] c = "u" -> "U"
      [] c = "l" -> "L" [] c = "a" -> "A" [] c = "i" -> "I"
      [] OTHER -> c

upper(s) == [k \in 1..Len(s) |-> UpperChar(s[k])]

-----------------------------------------------------------------------------
(* JSON values, as r.json() returns them *)

\* A value carries its type t; s is the text of a str, n the number of a num
\* or the number of keys of a dict, e the elements of a list.
Str(s) == [t |-> "str", s |-> s, n |-> 0, e |-> <<>>]

Num(n) == [t |-> "num", s |-> <<>>, n |-> n, e |-> <<>>]

\* a dict of n keys; s names it (pending items are passed through opaquely)
Map(s, n) == [t |-> "map", s |-> s, n |-> n, e |-> <<>>]

List(e) == [t |-> "list", s |-> <<>>, n |-> 0, e |-> e]

Null == [t |-> "null", s |-> <<>>, n |-> 0, e |-> <<>>]

\* what dict.get(key) returns for a key the dict does not hold: None
Absent == [t |-> "absent", s |-> <<>>, n |-> 0, e |-> <<>>]

\* Python's truth value of v
Truthy(v) ==
    CASE v.t = "str" -> v.s # <<>>
      [] v.t = "num" -> v.n # 0
      [] v.t = "map" -> v.n # 0
      [] v.t = "list" -> v.e # <<>>
      [] OTHER -> FALSE

\* a or b taking a whenever the key is there, whatever its value
Or_present(a, b) == IF a.t # "absent" THEN a ELSE b

\* a or b
Or(a, b) == IF Truthy(a) THEN a ELSE b

\* len(v) is defined on str, dict and list; on a number it raises TypeError
HasLen(v) == v.t \in {"str", "map", "list"}

PyLen(v) ==
    CASE v.t = "str" -> Len(v.s)
      [] v.t = "map" -> v.n
      [] v.t = "list" -> Len(v.e)
      [] OTHER -> 0

Keys == {"documento", "cpf", "cnpj", "nome", "razao_social", "razaoSocial",
         "situacao", "status", "pendencias", "itens", "debts", "extra"}

NoFields == [k \in Keys |-> Absent]

\* The body of a response: a JSON object (kind "dict", f its fields) or any
\* other JSON document (kind "list", "null", ...), which has no .get
Dict(f) == [kind |-> "dict", f |-> f]

NonDict(kind) == [kind |-> kind, f |-> NoFields]

\* data.get(key)
Get(data, key) == data.f[key]

-----------------------------------------------------------------------------
(* Text constants *)

REGULAR == <<"R", "E", "G", "U", "L", "A", "R">>

IRREGULAR == <<"I", "R", "R", "E", "G", "U", "L", "A", "R">>

\* the placeholder "—" of a missing name or status
Placeholder == <<"~">>

\* "Pessoa Física (demo)", "Empresa Ltda (demo)", "Documento (demo)"
NomePF == <<"P", "F", "(", "d", "e", "m", "o", ")">>

NomePJ == <<"P", "J", "(", "d", "e", "m", "o", ")">>

NomeDoc == <<"D", "o", "c", "(", "d", "e", "m", "o", ")">>

OrgaoPMSP == <<"P", "M", "S", "P">>

OrgaoUniao == <<"U", "n", "i", "a", "o">>

-----------------------------------------------------------------------------
(* Payload normalisation *)

\* What a function that may raise gives back: ok and its value, or not ok
NoRecord ==
    [documento |-> <<>>, nome |-> Null, situacao |-> <<>>, pendencias |-> Null,
     raw |-> NonDict("null")]

Returned(rec) == [ok |-> TRUE, rec |-> rec]

Raised == [ok |-> FALSE, rec |-> NoRecord]

\* normalize_payload(data, doc).  It raises AttributeError when data is no
\* dict (no .get) or when the status is a truthy non-str (no .upper), and
\* TypeError when the document is a truthy non-str (re.sub in only_digits).
normalize_payload(data, d) ==
    LET documento == Or(Or(Or(Get(data, "documento"), Get(data, "cpf")),
                           Get(data, "cnpj")), Str(d))
        nome == Or(Or(Or(Get(data, "nome"), Get(data, "razao_social")),
                      Get(data, "razaoSocial")), Str(Placeholder))
        situacao == Or(Or(Get(data, "situacao"), Get(data, "status")),
                       Str(Placeholder))
        pend == Or(Or(Or(Get(data, "pendencias"), Get(data, "itens")),
                      Get(data, "debts")), List(<<>>))
    IN  IF data.kind # "dict" THEN Raised
        ELSE IF Truthy(documento) /\ documento.t # "str" THEN Raised
        ELSE IF situacao.t # "str" THEN Raised
        ELSE Returned([documento |-> only_digits(documento.s),
                       nome |-> nome,
                       situacao |-> upper(situacao.s),
                       pendencias |-> IF pend.t = "map" THEN List(<<pend>>) ELSE pend,
                       raw |-> data])

\* demo_payload deciding the status by the first digit
demo_payload_first_digit(document) ==
    LET d == only_digits(document)
        is_irreg == IF d # <<>> THEN DigitValue(d[1]) % 2 = 1 ELSE FALSE
    IN  normalize_payload(
            Dict([NoFields EXCEPT
                    !["documento"] = Str(d),
                    !["nome"] = Str(IF is_cpf(d) THEN NomePF ELSE NomePJ),
                    !["situacao"] = Str(IF is_irreg THEN IRREGULAR ELSE REGULAR),
                    !["pendencias"] =
                        IF ~is_irreg THEN List(<<>>)
                        ELSE List(<<Map(IF is_cpf(d) THEN OrgaoPMSP ELSE OrgaoUniao, 5)>>)]),
            d)

\* demo_payload(document)
demo_payload(document) ==
    LET d == only_digits(document)
        is_pf == is_cpf(d)
        is_irreg == IF d # <<>> THEN DigitValue(d[Len(d)]) % 2 = 1 ELSE FALSE
        nome == IF is_pf THEN NomePF ELSE IF is_cnpj(d) THEN NomePJ ELSE NomeDoc
    IN  normalize_payload(
            Dict([NoFields EXCEPT
                    !["documento"] = Str(d),
                    !["nome"] = Str(nome),
                    !["situacao"] = Str(IF is_irreg THEN IRREGULAR ELSE REGULAR),
                    !["pendencias"] =
                        IF ~is_irreg THEN List(<<>>)
                        ELSE List(<<Map(IF is_pf THEN OrgaoPMSP ELSE OrgaoUniao, 5)>>)]),
            d)

-----------------------------------------------------------------------------
(* Providers *)

\* @st.cache_data(ttl=600)
TTL == 600

Fetchers == {"gateway", "serpro", "pmsp_pf", "pmsp_pj"}

\* GATEWAY_URL and INTERNAL_API_KEY, SERPRO_BASE and SERPRO_TOKEN,
\* PMSP_GATEWAY_URL and PMSP_API_KEY
GatewayConfigured == env.GATEWAY_URL /\ env.INTERNAL_API_KEY

SerproConfigured == env.SERPRO_BASE /\ env.SERPRO_TOKEN

PmspConfigured == env.PMSP_GATEWAY_URL /\ env.PMSP_API_KEY

\* the check each fetcher makes at the top of its body
Configured(fn) ==
    CASE fn = "gateway" -> GatewayConfigured
      [] fn = "serpro" -> SerproConfigured
      [] OTHER -> PmspConfigured

\* What the network does with one request: the response parsed (kind "ok"),
\* or raise_for_status raising, or requests.get raising, or r.json() raising
Failures == {"http_error", "network", "unparseable"}

Ok(data) == [kind |-> "ok", data |-> data]

Failed(kind) == [kind |-> kind, data |-> NonDict("null")]

Event(ev, who) == [ev |-> ev, who |-> who]

\* an entry still live when exactly ttl seconds old
Live_inclusive(c, fn, document, dt) ==
    {x \in c : x.fn = fn /\ x.document = document /\ x.dtnasc = dt
               /\ now - x.at <= TTL}

\* st.cache_data: the live entry of (fn, args), if any.  An entry is live for
\* ttl seconds after it was stored.
Live(c, fn, document, dt) ==
    {x \in c : x.fn = fn /\ x.document = document /\ x.dtnasc = dt
               /\ now - x.at < TTL}

\* st.cache_data: store the value fn(args) returned
Store(c, fn, document, dt, data) ==
    {x \in c : ~(x.fn = fn /\ x.document = document /\ x.dtnasc = dt)}
    \cup {[fn |-> fn, document |-> document, dtnasc |-> dt, data |-> data, at |-> now]}

\* a fetcher that remembers a failed request too, and answers it again
Fetch_remembering_failures(c, fn, document, dt, out) ==
    LET hit == Live(c, fn, document, dt) IN
    IF hit # {}
    THEN [ok |-> (CHOOSE x \in hit : TRUE).data.kind = "dict",
          data |-> (CHOOSE x \in hit : TRUE).data, cache |-> c,
          trace |-> <<Event("cache", fn), Event("returned", fn)>>]
    ELSE IF ~Configured(fn)
    THEN [ok |-> FALSE, data |-> NonDict("null"), cache |-> c,
          trace |-> <<Event("cache", fn), Event("raised", fn)>>]
    ELSE IF out.kind # "ok"
    THEN [ok |-> FALSE, data |-> NonDict("null"),
          cache |-> Store(c, fn, document, dt, NonDict("null")),
          trace |-> <<Event("cache", fn), Event("net", fn), Event("raised", fn)>>]
    ELSE [ok |-> TRUE, data |-> out.data,
          cache |-> Store(c, fn, document, dt, out.data),
          trace |-> <<Event("cache", fn), Event("net", fn), Event("returned", fn)>>]

\* a fetcher that sends its request first and checks the configuration after
Fetch_request_before_check(c, fn, document, dt, out) ==
    LET hit == Live(c, fn, document, dt) IN
    IF hit # {}
    THEN [ok |-> TRUE, data |-> (CHOOSE x \in hit : TRUE).data, cache |-> c,
          trace |-> <<Event("cache", fn), Event("returned", fn)>>]
    ELSE IF out.kind # "ok" \/ ~Configured(fn)
    THEN [ok |-> FALSE, data |-> NonDict("null"), cache |-> c,
          trace |-> <<Event("cache", fn), Event("net", fn), Event("raised", fn)>>]
    ELSE [ok |-> TRUE, data |-> out.data,
          cache |-> Store(c, fn, document, dt, out.data),
          trace |-> <<Event("cache", fn), Event("net", fn), Event("returned", fn)>>]

\* One call of a cached fetcher, fetch_cadin_*(document[, dtnasc]), with out
\* what the network answers if it is asked.  The decorator looks the
\* arguments up first and runs the body only on a miss; the body checks the
\* configuration, then makes the request; only a returned value is stored.
\* The trace tells what happened: the cache consulted ("cache"), a request
\* sent ("net"), and the call ended by a value ("returned") or an exception
\* ("raised").
Fetch(c, fn, document, dt, out) ==
    LET hit == Live(c, fn, document, dt) IN
    IF hit # {}
    THEN [ok |-> TRUE, data |-> (CHOOSE x \in hit : TRUE).data, cache |-> c,
          trace |-> <<Event("cache", fn), Event("returned", fn)>>]
    ELSE IF ~Configured(fn)
    THEN [ok |-> FALSE, data |-> NonDict("null"), cache |-> c,
          trace |-> <<Event("cache", fn), Event("raised", fn)>>]
    ELSE IF out.kind # "ok"
    THEN [ok |-> FALSE, data |-> NonDict("null"), cache |-> c,
          trace |-> <<Event("cache", fn), Event("net", fn), Event("raised", fn)>>]
    ELSE [ok |-> TRUE, data |-> out.data,
          cache |-> Store(c, fn, document, dt, out.data),
          trace |-> <<Event("cache", fn), Event("net", fn), Event("returned", fn)>>]

-----------------------------------------------------------------------------
(* Orchestration *)

NoPayload == [ok |-> FALSE, rec |-> NoRecord]

NoFonte == "None"

\* an attempt that asks the provider a second time when the first call failed
Attempt_retrying(c, fn, document, dt, out) ==
    LET f == Fetch(c, fn, document, dt, out)
        n == IF f.ok THEN normalize_payload(f.data, document) ELSE Raised
        again == Fetch(f.cache, fn, document, dt, out)
    IN  IF n.ok
        THEN [ok |-> TRUE, rec |-> n.rec, cache |-> f.cache, trace |-> f.trace]
        ELSE [ok |-> FALSE, rec |-> NoRecord, cache |-> again.cache,
              trace |-> f.trace \o again.trace \o <<Event("warning", fn)>>]

\* an attempt that swallows the failure: no st.warning
Attempt_silent(c, fn, document, dt, out) ==
    LET f == Fetch(c, fn, document, dt, out)
        n == IF f.ok THEN normalize_payload(f.data, document) ELSE Raised
    IN  IF n.ok
        THEN [ok |-> TRUE, rec |-> n.rec, cache |-> f.cache, trace |-> f.trace]
        ELSE [ok |-> FALSE, rec |-> NoRecord, cache |-> f.cache, trace |-> f.trace]

\* try: data = fetch_cadin_*(...); return normalize_payload(data, document), tag
\* except Exception as e: st.warning(...)
Attempt(c, fn, document, dt, out) ==
    LET f == Fetch(c, fn, document, dt, out)
        n == IF f.ok THEN normalize_payload(f.data, document) ELSE Raised
    IN  IF n.ok
        THEN [ok |-> TRUE, rec |-> n.rec, cache |-> f.cache, trace |-> f.trace]
        ELSE [ok |-> FALSE, rec |-> NoRecord, cache |-> f.cache,
              trace |-> f.trace \o <<Event("warning", fn)>>]

\* resolve_general with normalize_payload called after the try block, where
\* nothing catches what it raises
resolve_general_unguarded(c, document, og, os) ==
    LET g == IF GatewayConfigured
             THEN Fetch(c, "gateway", document, <<>>, og)
             ELSE [ok |-> FALSE, data |-> NonDict("null"), cache |-> c, trace |-> <<>>]
        n == normalize_payload(g.data, document)
    IN  IF g.ok
        THEN [raised |-> ~n.ok, payload |-> n, fonte |-> "gateway",
              cache |-> g.cache, trace |-> g.trace]
        ELSE [raised |-> FALSE, payload |-> demo_payload(document), fonte |-> "demo",
              cache |-> g.cache, trace |-> g.trace \o <<Event("demo", "demo")>>]

\* resolve_general(document): (payload, fonte).  og and os are what the
\* gateway and SERPRO answer if asked.  raised: the call ended in an exception.
resolve_general(c, document, og, os) ==
    LET g == IF GatewayConfigured
             THEN Attempt(c, "gateway", document, <<>>, og)
             ELSE [ok |-> FALSE, rec |-> NoRecord, cache |-> c, trace |-> <<>>]
        s == IF SerproConfigured
             THEN Attempt(g.cache, "serpro", document, <<>>, os)
             ELSE [ok |-> FALSE, rec |-> NoRecord, cache |-> g.cache, trace |-> <<>>]
        d == demo_payload(document)
    IN  IF g.ok
        THEN [raised |-> FALSE, payload |-> Returned(g.rec), fonte |-> "gateway",
              cache |-> g.cache, trace |-> g.trace]
        ELSE IF s.ok
        THEN [raised |-> FALSE, payload |-> Returned(s.rec), fonte |-> "serpro",
              cache |-> s.cache, trace |-> g.trace \o s.trace]
        ELSE [raised |-> ~d.ok, payload |-> d, fonte |-> "demo",
              cache |-> s.cache, trace |-> g.trace \o s.trace \o <<Event("demo", "demo")>>]

\* resolve_pmsp checking only that a birth date was given
resolve_pmsp_any_date(c, document, dt, o) ==
    LET a == Attempt(c, IF is_cpf(document) THEN "pmsp_pf" ELSE "pmsp_pj", document,
                     IF is_cpf(document) THEN strip(dt) ELSE <<>>, o)
    IN  IF ~PmspConfigured
        THEN [payload |-> NoPayload, fonte |-> NoFonte, cache |-> c, trace |-> <<>>]
        ELSE IF is_cpf(document) /\ dt = <<>>
        THEN [payload |-> NoPayload, fonte |-> NoFonte, cache |-> c,
              trace |-> <<Event("error", "birth_date")>>]
        ELSE [payload |-> IF a.ok THEN Returned(a.rec) ELSE NoPayload,
              fonte |-> IF ~a.ok THEN NoFonte
                        ELSE IF is_cpf(document) THEN "pmsp_pf" ELSE "pmsp_pj",
              cache |-> a.cache, trace |-> a.trace]

\* resolve_pmsp(document, dtnasc): (payload | None, fonte | None).  o is what
\* the PMSP gateway answers if asked.
resolve_pmsp(c, document, dt, o) ==
    LET none(tr) == [payload |-> NoPayload, fonte |-> NoFonte, cache |-> c, trace |-> tr]
        done(a, tag) ==
            IF a.ok
            THEN [payload |-> Returned(a.rec), fonte |-> tag, cache |-> a.cache,
                  trace |-> a.trace]
            ELSE [payload |-> NoPayload, fonte |-> NoFonte, cache |-> a.cache,
                  trace |-> a.trace]
    IN  IF ~PmspConfigured THEN none(<<>>)
        ELSE IF is_cpf(document)
        THEN IF dt = <<>> \/ ~MatchesDate(strip(dt))
             THEN none(<<Event("error", "birth_date")>>)
             ELSE done(Attempt(c, "pmsp_pf", document, strip(dt), o), "pmsp_pf")
        ELSE IF is_cnpj(document)
        THEN done(Attempt(c, "pmsp_pj", document, <<>>, o), "pmsp_pj")
        ELSE none(<<Event("error", "invalid_for_pmsp")>>)

-----------------------------------------------------------------------------
(* Inputs *)

\* "123.456.789-01": a CPF whose last digit is odd
CPF_A == <<"1", "2", "3", ".", "4", "5", "6", ".", "7", "8", "9", "-", "0", "1">>

\* "11122233344": a CPF whose last digit is even
CPF_B == <<"1", "1", "1", "2", "2", "2", "3", "3", "3", "4", "4">>

\* "12.345.678/0001-95": a CNPJ
CNPJ_A == <<"1", "2", ".", "3", "4", "5", ".", "6", "7", "8", "/", "0", "0", "0",
            "1", "-", "9", "5">>

\* "12345": neither
BAD == <<"1", "2", "3", "4", "5">>

\* "01/01/2024"
DtGood == <<"0", "1", "/", "0", "1", "/", "2", "0", "2", "4">>

\* "2024-01-01"
DtIso == <<"2", "0", "2", "4", "-", "0", "1", "-", "0", "1">>

\* " 01/01/2024": the date after a space
DtPadded == <<" ">> \o DtGood

\* "1/1/2024"
DtShort == <<"1", "/", "1", "/", "2", "0", "2", "4">>

Item == Map(<<"x">>, 2)

\* {"nome": "Ana", "situacao": "irregular", "pendencias": {...}}
P_good ==
    Dict([NoFields EXCEPT !["nome"] = Str(<<"A", "n", "a">>),
                          !["situacao"] = Str(<<"i", "r", "r", "e", "g", "u", "l", "a", "r">>),
                          !["pendencias"] = Item])

\* {"razao_social": "Ana", "status": "REGULAR", "extra": 1}
P_alias ==
    Dict([NoFields EXCEPT !["razao_social"] = Str(<<"A", "n", "a">>),
                          !["status"] = Str(REGULAR),
                          !["extra"] = Num(1)])

\* {"situacao": 1}: a status that is no string
P_badstatus == Dict([NoFields EXCEPT !["situacao"] = Num(1)])

\* {"situacao": "REGULAR", "pendencias": 7}: pending items that are a number
P_numpend ==
    Dict([NoFields EXCEPT !["situacao"] = Str(REGULAR), !["pendencias"] = Num(7)])

\* [ ]: a body that is no JSON object
P_list == NonDict("list")

Answer(payloads) == {Ok(p) : p \in payloads} \cup {Failed(k) : k \in Failures}

SingleDocs == {CPF_A, CPF_B, CNPJ_A, BAD}

SingleDates == {<<>>, DtGood, DtIso, DtPadded}

SingleAnswers == Answer({P_good, P_badstatus})

BatchCells ==
    {[documento |-> CPF_A, dtnasc |-> DtGood],
     [documento |-> CNPJ_A, dtnasc |-> <<>>],
     [documento |-> BAD, dtnasc |-> DtIso]}

BatchAnswers == {Ok(P_good), Ok(P_numpend), Failed("network")}

\* the number of requests (form submissions, uploads) served
MaxRequests == 2

\* the number of files uploaded
MaxUploads == 1

\* the number of rows of an uploaded file
MaxRows == 3

RECURSIVE SeqsUpTo(_, _)
SeqsUpTo(S, n) ==
    IF n = 0 THEN {<<>>}
    ELSE LET shorter == SeqsUpTo(S, n - 1)
         IN  shorter \cup {Append(q, x) : q \in shorter, x \in S}

Answers == IF mode = "batch" THEN BatchAnswers ELSE SingleAnswers

-----------------------------------------------------------------------------
(* The pages *)

Envs ==
    [GATEWAY_URL : BOOLEAN, INTERNAL_API_KEY : BOOLEAN,
     SERPRO_BASE : BOOLEAN, SERPRO_TOKEN : BOOLEAN,
     PMSP_GATEWAY_URL : BOOLEAN, PMSP_API_KEY : BOOLEAN]

NoCsv == [has_dtnasc |-> FALSE, rows |-> <<>>]

Init ==
    /\ env \in Envs
    /\ now = 0
    /\ cache = {}
    /\ mode \in {"single", "batch"}
    /\ pc = "idle"
    /\ pmsp_on = FALSE
    /\ consent = FALSE
    /\ doc = <<>>
    /\ dtnasc = <<>>
    /\ payload = NoPayload
    /\ fonte = NoFonte
    /\ trace = <<>>
    /\ csv = NoCsv
    /\ docs = <<>>
    /\ i = 0
    /\ out_rows = <<>>
    /\ lookups = 0
    /\ log = <<>>
    /\ body = NonDict("null")

Resting == pc \in {"idle", "done", "crashed"}

\* the sidebar: the PMSP checkbox exists only when the PMSP gateway is configured
Checkbox == IF PmspConfigured THEN BOOLEAN ELSE {FALSE}

\* render_single looking the document up whether the consent box is ticked
\* or not
SubmitSingle_without_consent(text, date, agreed, on) ==
    LET clean == only_digits(text) IN
    /\ mode = "single"
    /\ Resting
    /\ lookups < MaxRequests
    /\ lookups' = lookups + 1
    /\ pmsp_on' = on
    /\ consent' = agreed
    /\ doc' = clean
    /\ dtnasc' = IF on THEN date ELSE <<>>
    /\ payload' = NoPayload
    /\ fonte' = NoFonte
    /\ csv' = NoCsv
    /\ docs' = <<>>
    /\ i' = 0
    /\ out_rows' = <<>>
    /\ IF Len(clean) \notin {11, 14}
       THEN pc' = "done" /\ trace' = <<Event("error", "invalid_document")>>
       ELSE pc' = (IF on THEN "pmsp" ELSE "general") /\ trace' = <<>>
    /\ UNCHANGED <<env, body, now, cache, mode, log>>

\* render_single, from the submitted form to the spinner
SubmitSingle(text, date, agreed, on) ==
    LET clean == only_digits(text) IN
    /\ mode = "single"
    /\ Resting
    /\ lookups < MaxRequests
    /\ lookups' = lookups + 1
    /\ pmsp_on' = on
    /\ consent' = agreed
    /\ doc' = clean
    /\ dtnasc' = IF on THEN date ELSE <<>>
    /\ payload' = NoPayload
    /\ fonte' = NoFonte
    /\ csv' = NoCsv
    /\ docs' = <<>>
    /\ i' = 0
    /\ out_rows' = <<>>
    /\ IF Len(clean) \notin {11, 14}
       THEN pc' = "done" /\ trace' = <<Event("error", "invalid_document")>>
       ELSE IF ~agreed
       THEN pc' = "done" /\ trace' = <<Event("error", "consent")>>
       ELSE pc' = (IF on THEN "pmsp" ELSE "general") /\ trace' = <<>>
    /\ UNCHANGED <<env, body, now, cache, mode, log>>

\* the dispatch entering the general flow whatever resolve_pmsp returned
StepPmsp_then_general(o) ==
    LET r == resolve_pmsp(cache, doc, dtnasc, o) IN
    /\ pc = "pmsp"
    /\ payload' = r.payload
    /\ fonte' = r.fonte
    /\ cache' = r.cache
    /\ trace' = trace \o r.trace
    /\ pc' = "general"
    /\ UNCHANGED <<env, body, now, mode, pmsp_on, consent, doc, dtnasc, csv, docs, i,
                   out_rows, lookups, log>>

\* payload, fonte = resolve_pmsp(clean, dtnasc), in render_single and in a
\* row of render_batch
StepPmsp(o) ==
    LET r == resolve_pmsp(cache, doc, dtnasc, o) IN
    /\ pc = "pmsp"
    /\ payload' = r.payload
    /\ fonte' = r.fonte
    /\ cache' = r.cache
    /\ trace' = trace \o r.trace
    /\ pc' = IF ~r.payload.ok THEN "general"
             ELSE IF mode = "batch" THEN "append" ELSE "done"
    /\ UNCHANGED <<env, body, now, mode, pmsp_on, consent, doc, dtnasc, csv, docs, i,
                   out_rows, lookups, log>>

\* if payload is None: payload, fonte = resolve_general(clean)
StepGeneral(og, os) ==
    LET r == resolve_general(cache, doc, og, os) IN
    /\ pc = "general"
    /\ payload' = r.payload
    /\ fonte' = r.fonte
    /\ cache' = r.cache
    /\ trace' = trace \o r.trace
    /\ pc' = IF r.raised THEN "crashed"
             ELSE IF mode = "batch" THEN "append" ELSE "done"
    /\ UNCHANGED <<env, body, now, mode, pmsp_on, consent, doc, dtnasc, csv, docs, i,
                   out_rows, lookups, log>>

\* docs = [only_digits(x) for x in df["documento"].fillna("")...]
\* docs = [d for d in docs if len(d) in (11, 14)]
ValidLength(d) == Len(d) \in {11, 14}

IsElevenLong(d) == Len(d) = 11

\* a filter that keeps the CPFs only
FilterDocs_only_cpf(rows) ==
    SelectSeq([k \in 1..Len(rows) |-> only_digits(rows[k].documento)], IsElevenLong)

FilterDocs(rows) ==
    SelectSeq([k \in 1..Len(rows) |-> only_digits(rows[k].documento)], ValidLength)

\* str(cell or ""): read_csv gives NaN for an empty cell, NaN is truthy, and
\* str(NaN) is "nan"
NaNText == <<"n", "a", "n">>

CellText(cell) == IF cell = <<>> THEN NaNText ELSE cell

\* The birth date of the k-th document of the loop: dtnasc = ""; for a CPF
\* of a file with a dtnasc column, the cell of the file's k-th row, stripped
RowDate(file, d, k) ==
    IF is_cpf(d) /\ file.has_dtnasc
    THEN IF k <= Len(file.rows) THEN strip(CellText(file.rows[k].dtnasc)) ELSE <<>>
    ELSE <<>>

\* render_batch going on to the loop and the report with no document left
BatchUpload_without_empty_check(file, agreed, on) ==
    LET ds == FilterDocs(file.rows) IN
    /\ mode = "batch"
    /\ Resting
    /\ lookups < MaxUploads
    /\ lookups' = lookups + 1
    /\ pmsp_on' = on
    /\ consent' = agreed
    /\ payload' = NoPayload
    /\ fonte' = NoFonte
    /\ out_rows' = <<>>
    /\ IF ~agreed
       THEN /\ pc' = "done"
            /\ trace' = <<Event("error", "consent")>>
            /\ csv' = NoCsv /\ docs' = <<>> /\ i' = 0 /\ doc' = <<>> /\ dtnasc' = <<>>
       ELSE IF ds = <<>>
       THEN /\ pc' = "done"
            /\ trace' = <<>>
            /\ csv' = file /\ docs' = ds /\ i' = 0 /\ doc' = <<>> /\ dtnasc' = <<>>
       ELSE /\ pc' = (IF on THEN "pmsp" ELSE "general")
            /\ trace' = <<>>
            /\ csv' = file /\ docs' = ds /\ i' = 1 /\ doc' = ds[1]
            /\ dtnasc' = IF on THEN RowDate(file, ds[1], 1) ELSE <<>>
    /\ UNCHANGED <<env, body, now, cache, mode, log>>

\* render_batch, from the uploaded file to the first row of the loop
BatchUpload(file, agreed, on) ==
    LET ds == FilterDocs(file.rows) IN
    /\ mode = "batch"
    /\ Resting
    /\ lookups < MaxUploads
    /\ lookups' = lookups + 1
    /\ pmsp_on' = on
    /\ consent' = agreed
    /\ payload' = NoPayload
    /\ fonte' = NoFonte
    /\ out_rows' = <<>>
    /\ IF ~agreed
       THEN /\ pc' = "done"
            /\ trace' = <<Event("error", "consent")>>
            /\ csv' = NoCsv /\ docs' = <<>> /\ i' = 0 /\ doc' = <<>> /\ dtnasc' = <<>>
       ELSE IF ds = <<>>
       THEN /\ pc' = "done"
            /\ trace' = <<Event("error", "no_valid_input")>>
            /\ csv' = file /\ docs' = ds /\ i' = 0 /\ doc' = <<>> /\ dtnasc' = <<>>
       ELSE /\ pc' = (IF on THEN "pmsp" ELSE "general")
            /\ trace' = <<>>
            /\ csv' = file /\ docs' = ds /\ i' = 1 /\ doc' = ds[1]
            /\ dtnasc' = IF on THEN RowDate(file, ds[1], 1) ELSE <<>>
    /\ UNCHANGED <<env, body, now, cache, mode, log>>

\* One report row
Row(d, p, f, pend) ==
    [documento |-> fmt_doc(d), tipo |-> label_doc(d), nome |-> p.nome,
     situacao |-> p.situacao, qtd_pendencias |-> PyLen(pend), fonte |-> f]

\* render_batch, from the row appended to the next document of the loop or,
\* after the last one, to the report.  len(pend) raises TypeError on a
\* number, which nothing catches.
BatchAppend ==
    LET pend == Or(payload.rec.pendencias, List(<<>>)) IN
    /\ pc = "append"
    /\ IF ~HasLen(pend)
       THEN /\ pc' = "crashed"
            /\ UNCHANGED <<out_rows, i, doc, dtnasc, payload, fonte, trace>>
       ELSE /\ out_rows' = Append(out_rows, Row(doc, payload.rec, fonte, pend))
            /\ IF i = Len(docs)
               THEN /\ pc' = "done"
                    /\ UNCHANGED <<i, doc, dtnasc, payload, fonte, trace>>
               ELSE /\ pc' = (IF pmsp_on THEN "pmsp" ELSE "general")
                    /\ i' = i + 1
                    /\ doc' = docs[i + 1]
                    /\ dtnasc' = IF pmsp_on THEN RowDate(csv, docs[i + 1], i + 1) ELSE <<>>
                    /\ payload' = NoPayload
                    /\ fonte' = NoFonte
                    /\ trace' = <<>>
    /\ UNCHANGED <<env, body, now, cache, mode, pmsp_on, consent, csv, docs, lookups, log>>

Files == [has_dtnasc : BOOLEAN, rows : SeqsUpTo(BatchCells, MaxRows) \ {<<>>}]

Next ==
    \/ \E text \in SingleDocs, date \in SingleDates, agreed \in BOOLEAN, on \in Checkbox :
          SubmitSingle(text, date, agreed, on)
    \/ \E o \in Answers : StepPmsp(o)
    \/ \E og \in Answers, os \in Answers : StepGeneral(og, os)
    \/ \E file \in Files, agreed \in BOOLEAN, on \in Checkbox :
          BatchUpload(file, agreed, on)
    \/ BatchAppend

Spec == Init /\ [][Next]_vars

-----------------------------------------------------------------------------
(* The cached fetchers called on their own, with the clock running *)

\* the number of fetcher calls
MaxCalls == 3

\* the clock advances by TickSeconds, up to MaxClock
TickSeconds == 300

MaxClock == 600

\* "02/02/2024"
DtOther == <<"0", "2", "/", "0", "2", "/", "2", "0", "2", "4">>

\* the arguments the fetchers are called with
FetchCalls ==
    {<<fn, only_digits(CPF_A), <<>>>> : fn \in {"gateway", "serpro", "pmsp_pj"}}
    \cup {<<"pmsp_pf", only_digits(CPF_A), dt>> : dt \in {DtGood, DtOther}}

FetchAnswers == {Ok(P_good), Ok(P_alias), Failed("http_error"), Failed("network"),
                 Failed("unparseable")}

\* the configurations where a provider has both its values or none
PairedEnvs ==
    {e \in Envs : /\ e.GATEWAY_URL = e.INTERNAL_API_KEY
                  /\ e.SERPRO_BASE = e.SERPRO_TOKEN
                  /\ e.PMSP_GATEWAY_URL = e.PMSP_API_KEY}

InitCache ==
    /\ env \in PairedEnvs
    /\ now = 0
    /\ cache = {}
    /\ mode = "fetch"
    /\ pc = "idle"
    /\ pmsp_on = FALSE
    /\ consent = FALSE
    /\ doc = <<>>
    /\ dtnasc = <<>>
    /\ payload = NoPayload
    /\ fonte = NoFonte
    /\ trace = <<>>
    /\ csv = NoCsv
    /\ docs = <<>>
    /\ i = 0
    /\ out_rows = <<>>
    /\ lookups = 0
    /\ log = <<>>
    /\ body = NonDict("null")

IsNet(e) == e.ev = "net"

\* fetch_cadin_*(document[, dtnasc]); log records what the call did
CallFetch(fn, document, dt, out) ==
    LET r == Fetch(cache, fn, document, dt, out) IN
    /\ mode = "fetch"
    /\ Len(log) < MaxCalls
    /\ cache' = r.cache
    /\ log' = Append(log, [fn |-> fn, document |-> document, dtnasc |-> dt,
                           at |-> now, ok |-> r.ok,
                           net |-> SelectSeq(r.trace, IsNet) # <<>>,
                           data |-> r.data, trace |-> r.trace])
    /\ UNCHANGED <<env, body, now, mode, pc, pmsp_on, consent, doc, dtnasc, payload,
                   fonte, trace, csv, docs, i, out_rows, lookups>>

\* time passes
Tick ==
    /\ now + TickSeconds <= MaxClock
    /\ now' = now + TickSeconds
    /\ UNCHANGED <<env, body, cache, mode, pc, pmsp_on, consent, doc, dtnasc, payload,
                   fonte, trace, csv, docs, i, out_rows, lookups, log, body>>

NextCache ==
    \/ \E call \in FetchCalls, out \in FetchAnswers :
          CallFetch(call[1], call[2], call[3], out)
    \/ Tick

SpecCache == InitCache /\ [][NextCache]_vars

-----------------------------------------------------------------------------
(* Properties of the lookup flows *)

Has(ev, who) == \E k \in 1..Len(trace) : trace[k] = Event(ev, who)

GeneralSteps == {"gateway", "serpro", "demo"}

MunicipalSteps == {"pmsp_pf", "pmsp_pj", "birth_date", "invalid_for_pmsp"}

\* a lookup (a form, or a row of a file) that ended with a record
Resolved == pc \in {"done", "append"} /\ payload.ok

\* the request was refused before any flow was entered
Refused ==
    /\ trace # <<>>
    /\ trace[1].ev = "error"
    /\ trace[1].who \in {"invalid_document", "consent", "no_valid_input"}

\* resolve_pmsp has run for the current document
MunicipalRan == pmsp_on /\ pc \notin {"idle", "pmsp"} /\ ~Refused

\* C1: the general flow is total: entered for a document of 11 or 14
\* digits, whatever is configured and whatever each provider answers, it
\* returns a record and one of its three provenance tags; it never raises.
C1_GeneralFlowTotal ==
    [][pc = "general" =>
          /\ Len(doc) \in {11, 14}
          /\ pc' \in {"done", "append"}
          /\ payload'.ok
          /\ fonte' \in {"gateway", "serpro", "demo"}]_vars

\* both providers were asked, both failed, and the demo record was returned
C1_Witness ==
    /\ pc = "done"
    /\ payload.ok
    /\ fonte = "demo"
    /\ Has("net", "gateway") /\ Has("raised", "gateway")
    /\ Has("net", "serpro") /\ Has("raised", "serpro")

\* C2: the provenance names the provider whose call returned the payload the
\* record was built from; when the gateway fails and SERPRO's call succeeds
\* it is "serpro"; it is "demo" only when no provider call succeeded.
C2_ProvenanceNamesProducer ==
    Resolved =>
        /\ fonte # "demo" =>
              /\ Has("returned", fonte)
              /\ \E x \in cache : /\ x.fn = fonte /\ x.document = doc
                                  /\ x.data = payload.rec.raw
        /\ Has("raised", "gateway") /\ Has("returned", "serpro") => fonte = "serpro"
        /\ fonte = "demo" =>
              ~Has("returned", "gateway") /\ ~Has("returned", "serpro")

\* C3: with municipal mode on, the municipal flow runs before any step of the
\* general flow; the general flow is entered exactly when municipal mode is
\* off or the municipal flow returned nothing; when the municipal flow
\* returns a record, no general provider is called and that record is the
\* result.
MunicipalReturnedNothing ==
    /\ trace # <<>>
    /\ \A k \in 1..Len(trace) : trace[k].who \in MunicipalSteps
    /\ trace[Len(trace)].ev \in {"error", "warning"}
    /\ ~payload.ok

C3_MunicipalBeforeGeneral ==
    /\ pmsp_on => PmspConfigured
    /\ pc = "pmsp" => pmsp_on /\ trace = <<>>
    /\ pc = "general" => IF pmsp_on THEN MunicipalReturnedNothing ELSE trace = <<>>
    /\ \A j, k \in 1..Len(trace) :
          j < k /\ trace[j].who \in GeneralSteps => trace[k].who \in GeneralSteps
    /\ Resolved /\ fonte \in {"pmsp_pf", "pmsp_pj"} =>
          /\ pmsp_on
          /\ \A k \in 1..Len(trace) : trace[k].who = fonte
          /\ \E x \in cache : /\ x.fn = fonte /\ x.document = doc
                              /\ x.data = payload.rec.raw
    /\ Resolved /\ fonte \in {"gateway", "serpro", "demo"} /\ pmsp_on =>
          /\ trace[1].who \in MunicipalSteps
          /\ \E k \in 1..Len(trace) :
                /\ trace[k].who \in MunicipalSteps
                /\ trace[k].ev \in {"error", "warning"}

\* the municipal provider answered and neither general provider was consulted
C3_Witness ==
    /\ pc = "done"
    /\ payload.ok
    /\ fonte = "pmsp_pj"
    /\ GatewayConfigured /\ SerproConfigured
    /\ Has("net", "pmsp_pj")
    /\ ~Has("cache", "gateway") /\ ~Has("cache", "serpro")

\* C4: a lookup that reports a user-input error (a document of the wrong
\* length, a missing or malformed birth date) stops there: the error is the
\* last thing the lookup does, no flow is attempted after it and no provider
\* is ever sent a request.
UserInputErrors == {"invalid_document", "birth_date", "invalid_for_pmsp"}

C4_InputErrorsStopLookup ==
    \A k \in 1..Len(trace) :
        trace[k].ev = "error" /\ trace[k].who \in UserInputErrors =>
            /\ k = Len(trace)
            /\ \A j \in 1..Len(trace) : trace[j].ev # "net"

\* C5 as first stated: the PMSP person fetcher is called only when the birth
\* date, as given, matches dd/dd/dddd; otherwise resolve_pmsp reports the
\* error and calls nothing.
C5_StrictBirthDateGate ==
    /\ Has("cache", "pmsp_pf") => MatchesDate(dtnasc)
    /\ MunicipalRan /\ is_cpf(doc) /\ ~MatchesDate(dtnasc) =>
          /\ trace[1] = Event("error", "birth_date")
          /\ ~Has("cache", "pmsp_pf") /\ ~Has("net", "pmsp_pf")

\* C5, amended: the PMSP person fetcher is called only when the birth date,
\* once the spaces around it are removed, matches dd/dd/dddd, and it is
\* called with that trimmed date; when the date is empty or does not match
\* after trimming, resolve_pmsp reports the error and calls nothing.
C5_BirthDateGate ==
    /\ Has("cache", "pmsp_pf") => MatchesDate(strip(dtnasc))
    /\ \A x \in cache : x.fn = "pmsp_pf" => MatchesDate(x.dtnasc)
    /\ MunicipalRan /\ is_cpf(doc) /\ ~MatchesDate(strip(dtnasc)) =>
          /\ trace[1] = Event("error", "birth_date")
          /\ ~Has("cache", "pmsp_pf") /\ ~Has("net", "pmsp_pf")
          /\ \A x \in cache : ~(x.fn = "pmsp_pf" /\ x.dtnasc = strip(dtnasc))

\* a CPF with the date 2024-01-01: the error, and nothing else
C5_Witness ==
    /\ pc = "general"
    /\ is_cpf(doc)
    /\ dtnasc = DtIso
    /\ trace = <<Event("error", "birth_date")>>

-----------------------------------------------------------------------------
(* Properties of the batch *)

\* C6: in a batch, whatever a provider answers for a row (an error, or a
\* payload of unexpected shape or types), the loop goes on: nothing raised
\* by a row ends the batch, and the report holds every row.
C6_BatchRowIsolation ==
    mode = "batch" =>
        /\ pc # "crashed"
        /\ pc = "done" /\ ~Refused => Len(out_rows) = Len(docs)

\* the rows of the file whose document has 11 or 14 digits
ValidRows ==
    {k \in 1..Len(csv.rows) : Len(only_digits(csv.rows[k].documento)) \in {11, 14}}

\* the j-th of them, in the order of the file
NthValidRow(j) ==
    CHOOSE k \in ValidRows : Cardinality({m \in ValidRows : m <= k}) = j

\* C7: the report holds one row for each document of the file that has 11 or
\* 14 digits, in the order of the file, and none for the others: while the
\* loop runs the rows written are the first valid documents, and the report
\* shown at the end has as many rows as the file has valid documents.
C7_ReportShape ==
    /\ Len(out_rows) <= Cardinality(ValidRows)
    /\ \A j \in 1..Len(out_rows) :
          only_digits(out_rows[j].documento)
              = only_digits(csv.rows[NthValidRow(j)].documento)
    /\ mode = "batch" /\ pc = "done" /\ ~Refused =>
          Len(out_rows) = Cardinality(ValidRows)

\* a CPF, a malformed document and a CNPJ: a report of two rows
C7_Witness ==
    /\ mode = "batch"
    /\ pc = "done"
    /\ Len(csv.rows) = 3
    /\ csv.rows[2].documento = BAD
    /\ Len(out_rows) = 2
    /\ out_rows[1].tipo = "CPF"
    /\ out_rows[2].tipo = "CNPJ"

-----------------------------------------------------------------------------
(* Properties of the demo record *)

LastDigitEven == DigitValue(doc[Len(doc)]) % 2 = 0

\* C10: when each general provider is unconfigured or its attempt failed, the
\* result is the demo record, and that record is fixed by the document:
\* REGULAR with no pending item when its last digit is even, IRREGULAR with
\* exactly one pending item when it is odd.
C10_DemoDeterministic ==
    /\ ( /\ Resolved
         /\ fonte \in {"gateway", "serpro", "demo"}
         /\ ~GatewayConfigured \/ Has("warning", "gateway")
         /\ ~SerproConfigured \/ Has("warning", "serpro") )
       => fonte = "demo"
    /\ Resolved /\ fonte = "demo" =>
          /\ payload.rec.documento = doc
          /\ payload.rec.nome = Str(IF Len(doc) = 11 THEN NomePF ELSE NomePJ)
          /\ payload.rec.situacao = (IF LastDigitEven THEN REGULAR ELSE IRREGULAR)
          /\ payload.rec.pendencias.t = "list"
          /\ Len(payload.rec.pendencias.e) = (IF LastDigitEven THEN 0 ELSE 1)

\* the gateway failed and the document ends in an odd digit
C10_Witness ==
    /\ Resolved
    /\ fonte = "demo"
    /\ Has("warning", "gateway")
    /\ ~LastDigitEven
    /\ payload.rec.situacao = IRREGULAR
    /\ Len(payload.rec.pendencias.e) = 1

-----------------------------------------------------------------------------
(* Properties of the cache *)

SameCall(a, b) == a.fn = b.fn /\ a.document = b.document /\ a.dtnasc = b.dtnasc

\* the calls before the k-th that fetched the same arguments over the network
Fetched(k) ==
    {j \in 1..(k - 1) : SameCall(log[j], log[k]) /\ log[j].net /\ log[j].ok}

Latest(S) == CHOOSE j \in S : \A m \in S : m <= j

\* C8 as first stated: two lookups of the same provider and identifier less
\* than 600 seconds apart send at most one request between them.
C8_TwoLookupsOneRequest ==
    \A j, k \in 1..Len(log) :
        /\ j < k
        /\ log[j].fn = log[k].fn
        /\ log[j].document = log[k].document
        /\ log[k].at - log[j].at < TTL
        => ~(log[j].net /\ log[k].net)

\* C8, amended: after a lookup that fetched a payload over the network, a
\* lookup with the same arguments (the identifier and, for the PMSP person
\* fetcher, the birth date) made less than 600 seconds later sends no
\* request and returns that payload; one made 600 seconds later or more
\* sends a new request.
C8_CacheDeduplication ==
    \A k \in 1..Len(log) :
        Fetched(k) # {} =>
            LET j == Latest(Fetched(k)) IN
            IF log[k].at - log[j].at < TTL
            THEN ~log[k].net /\ log[k].ok /\ log[k].data = log[j].data
            ELSE log[k].net

\* a request, a hit 300 seconds later, a new request 600 seconds later
C8_Witness ==
    /\ Len(log) = 3
    /\ SameCall(log[1], log[2]) /\ SameCall(log[1], log[3])
    /\ log[1].at = 0 /\ log[1].net /\ log[1].ok
    /\ log[2].at = 300 /\ ~log[2].net /\ log[2].ok
    /\ log[3].at = 600 /\ log[3].net

\* C9: every cache entry is the payload of a fetch that ended well; no
\* failed fetch removes or replaces an entry; and after a failure the next
\* lookup of the same arguments makes a real attempt again.
C9_CacheHoldsOnlySuccesses ==
    /\ \A x \in cache :
          \E k \in 1..Len(log) :
              /\ log[k].fn = x.fn /\ log[k].document = x.document
              /\ log[k].dtnasc = x.dtnasc
              /\ log[k].net /\ log[k].ok
              /\ log[k].data = x.data /\ log[k].at = x.at
    /\ \A j \in 1..Len(log) :
          ( /\ log[j].net /\ log[j].ok
            /\ ~\E k \in (j + 1)..Len(log) : SameCall(log[j], log[k]) /\ log[k].net /\ log[k].ok )
          => [fn |-> log[j].fn, document |-> log[j].document, dtnasc |-> log[j].dtnasc,
              data |-> log[j].data, at |-> log[j].at] \in cache
    /\ \A k \in 1..Len(log) :
          (\A j \in Fetched(k) : log[k].at - log[j].at >= TTL)
          => IF Configured(log[k].fn) THEN log[k].net ELSE ~log[k].net /\ ~log[k].ok

\* a request that failed, then the same lookup sending a request again
C9_Witness ==
    /\ Len(log) >= 2
    /\ SameCall(log[1], log[2])
    /\ log[1].net /\ ~log[1].ok
    /\ log[2].net /\ log[2].ok
    /\ Cardinality(cache) = 1

-----------------------------------------------------------------------------
(* normalize_payload called on its own, on the bodies a provider may send *)

\* the number of keys a raw payload holds
MaxKeys == 3

\* "a1" and "r2"
Text1 == <<"a", "1">>

Text2 == <<"r", "2">>

\* the values of a key: strings, numbers, mappings and sequences (of each
\* type an empty and a non-empty one) and null
Values ==
    {Str(<<>>), Str(Text1), Str(Text2), Num(0), Num(7), Map(<<>>, 0), Item,
     List(<<>>), List(<<Item>>), Null}

\* the JSON objects of at most n keys
RECURSIVE FieldsUpTo(_)
FieldsUpTo(n) ==
    IF n = 0 THEN {NoFields}
    ELSE LET fewer == FieldsUpTo(n - 1)
         IN  fewer \cup {[f EXCEPT ![k] = v] : f \in fewer, k \in Keys, v \in Values}

RawPayloads == {Dict(f) : f \in FieldsUpTo(MaxKeys)}

\* the document handed over as fallback
NormalizeDocs == {only_digits(CPF_B), only_digits(CNPJ_A)}

InitNormalize ==
    /\ env \in {e \in Envs : \A k \in DOMAIN e : ~e[k]}
    /\ now = 0
    /\ cache = {}
    /\ mode = "normalize"
    /\ pc = "idle"
    /\ pmsp_on = FALSE
    /\ consent = FALSE
    /\ doc = <<>>
    /\ dtnasc = <<>>
    /\ payload = NoPayload
    /\ fonte = NoFonte
    /\ trace = <<>>
    /\ csv = NoCsv
    /\ docs = <<>>
    /\ i = 0
    /\ out_rows = <<>>
    /\ lookups = 0
    /\ log = <<>>
    /\ body \in RawPayloads

\* normalize_payload(body, d): pc tells whether it returned or raised
Normalize(d) ==
    LET r == normalize_payload(body, d) IN
    /\ mode = "normalize"
    /\ pc = "idle"
    /\ doc' = d
    /\ payload' = r
    /\ pc' = IF r.ok THEN "done" ELSE "crashed"
    /\ UNCHANGED <<env, body, now, cache, mode, pmsp_on, consent, dtnasc, fonte, trace,
                   csv, docs, i, out_rows, lookups, log>>

NextNormalize == \E d \in NormalizeDocs : Normalize(d)

SpecNormalize == InitNormalize /\ [][NextNormalize]_vars

-----------------------------------------------------------------------------
(* Properties of the normalisation *)

\* the keys of the body that are present, whatever their value
Present(key) == Get(body, key).t # "absent"

\* C11: normalize_payload is total: whatever keys the raw payload holds and
\* whatever the type of each value, it returns a record and raises nothing.
C11_NormalizeTotal ==
    mode = "normalize" /\ pc # "idle" => pc = "done" /\ payload.ok

PendingAliases == <<"pendencias", "itens", "debts">>

\* C12: the pendencias of the record normalize_payload returns is always a
\* list: a mapping under pendencias, itens or debts becomes the list of that
\* one mapping, and with none of the three keys it is the empty list.
C12_PendingItemsIsSequence ==
    mode = "normalize" /\ pc = "done" =>
        /\ payload.rec.pendencias.t = "list"
        /\ \A k \in 1..3 :
              /\ Get(body, PendingAliases[k]).t = "map"
              /\ \A j \in 1..(k - 1) : ~Present(PendingAliases[j])
              => payload.rec.pendencias = List(<<Get(body, PendingAliases[k])>>)
        /\ (\A k \in 1..3 : ~Present(PendingAliases[k])) =>
              payload.rec.pendencias = List(<<>>)

-----------------------------------------------------------------------------
(* resolve_pmsp called on its own, with PMSP configured or not *)

\* the number of calls of resolve_pmsp
MaxResolves == 2

\* the configurations of the PMSP gateway, the general providers left out
PmspEnvs ==
    {e \in Envs : ~e.GATEWAY_URL /\ ~e.INTERNAL_API_KEY /\ ~e.SERPRO_BASE /\ ~e.SERPRO_TOKEN}

ResolveDocs == {only_digits(text) : text \in SingleDocs}

InitPmsp ==
    /\ env \in PmspEnvs
    /\ now = 0
    /\ cache = {}
    /\ mode = "resolve_pmsp"
    /\ pc = "idle"
    /\ pmsp_on = FALSE
    /\ consent = FALSE
    /\ doc = <<>>
    /\ dtnasc = <<>>
    /\ payload = NoPayload
    /\ fonte = NoFonte
    /\ trace = <<>>
    /\ csv = NoCsv
    /\ docs = <<>>
    /\ i = 0
    /\ out_rows = <<>>
    /\ lookups = 0
    /\ log = <<>>
    /\ body = NonDict("null")

\* payload, fonte = resolve_pmsp(document, dt); log records the configuration
\* the call ran under, the pair it returned and what it did
CallPmsp(document, dt, o) ==
    LET r == resolve_pmsp(cache, document, dt, o) IN
    /\ mode = "resolve_pmsp"
    /\ Len(log) < MaxResolves
    /\ doc' = document
    /\ dtnasc' = dt
    /\ payload' = r.payload
    /\ fonte' = r.fonte
    /\ cache' = r.cache
    /\ trace' = r.trace
    /\ log' = Append(log, [configured |-> PmspConfigured,
                           outcome |-> <<r.payload, r.fonte>>,
                           trace |-> r.trace])
    /\ UNCHANGED <<env, body, now, mode, pc, pmsp_on, consent, csv, docs, i, out_rows,
                   lookups>>

\* the application is started again with other values of PMSP_GATEWAY_URL and
\* PMSP_API_KEY; the cache lives in the memory of the process
Restart(e) ==
    /\ mode = "resolve_pmsp"
    /\ e # env
    /\ env' = e
    /\ cache' = {}
    /\ UNCHANGED <<body, now, mode, pc, pmsp_on, consent, doc, dtnasc, payload, fonte,
                   trace, csv, docs, i, out_rows, lookups, log>>

NextPmsp ==
    \/ \E document \in ResolveDocs, dt \in SingleDates, o \in SingleAnswers :
          CallPmsp(document, dt, o)
    \/ \E e \in PmspEnvs : Restart(e)

SpecPmsp == InitPmsp /\ [][NextPmsp]_vars

\* a call of resolve_pmsp that failed: it ended with st.error or st.warning
FlowFailed(call) ==
    /\ call.trace # <<>>
    /\ call.trace[Len(call.trace)].ev \in {"error", "warning"}

\* C13: what resolve_pmsp returns when PMSP is not configured differs from
\* what it returns when the flow fails (birth date missing or malformed,
\* provider call failed, invalid document), so that a caller can tell the two
\* apart.
C13_NotApplicableDistinct ==
    \A j, k \in 1..Len(log) :
        ~log[j].configured /\ log[k].configured /\ FlowFailed(log[k])
        => log[j].outcome # log[k].outcome

-----------------------------------------------------------------------------
(* Properties of the provider clients *)

\* the position of the first event ev of a call, 0 when it has none
FirstEvent(tr, ev) ==
    IF \E k \in 1..Len(tr) : tr[k].ev = ev
    THEN CHOOSE k \in 1..Len(tr) : tr[k].ev = ev /\ \A j \in 1..(k - 1) : tr[j].ev # ev
    ELSE 0

\* C14 as first stated: a fetcher whose provider is not configured fails
\* without consulting the cache and without sending a request.
C14_ConfigCheckFirst ==
    \A k \in 1..Len(log) :
        ~Configured(log[k].fn) =>
            /\ ~log[k].ok
            /\ FirstEvent(log[k].trace, "cache") = 0
            /\ FirstEvent(log[k].trace, "net") = 0

\* C14, amended: every call of a fetcher looks its arguments up in the cache
\* first; a fetcher whose provider is not configured always fails, after
\* that lookup missed, without sending a request; a request is sent only by
\* a configured provider, after the lookup; and the cache never holds an
\* entry of a provider that is not configured.
C14_ConfigCheckBeforeRequest ==
    /\ \A k \in 1..Len(log) :
          /\ log[k].trace[1] = Event("cache", log[k].fn)
          /\ ~Configured(log[k].fn) =>
                /\ ~log[k].ok
                /\ log[k].trace = <<Event("cache", log[k].fn), Event("raised", log[k].fn)>>
          /\ FirstEvent(log[k].trace, "net") # 0 =>
                /\ Configured(log[k].fn)
                /\ FirstEvent(log[k].trace, "cache") < FirstEvent(log[k].trace, "net")
    /\ \A x \in cache : Configured(x.fn)

\* one provider not configured and called, another configured and requested
C14_Witness ==
    \E j, k \in 1..Len(log) :
        /\ ~Configured(log[j].fn) /\ ~log[j].ok
        /\ Configured(log[k].fn) /\ log[k].net /\ log[k].ok

-----------------------------------------------------------------------------
(* Properties of the attempts of one lookup *)

\* how many times the running lookup did e
Count(e) == Cardinality({k \in 1..Len(trace) : trace[k] = e})

\* where the running lookup did e (for an e it did once)
At(e) == CHOOSE k \in 1..Len(trace) : trace[k] = e

\* C15: in one lookup (a form, or a row of a file) each of the four
\* fetchers is called at most once and sends at most one request, also after
\* a failure; SERPRO is called only when the gateway is not configured or
\* after the gateway's attempt failed.
C15_SingleAttempt ==
    /\ \A fn \in Fetchers :
          /\ Count(Event("cache", fn)) <= 1
          /\ Count(Event("net", fn)) <= 1
    /\ Has("cache", "serpro") =>
          IF GatewayConfigured
          THEN /\ Count(Event("cache", "gateway")) = 1
               /\ Count(Event("warning", "gateway")) = 1
               /\ At(Event("cache", "gateway")) < At(Event("warning", "gateway"))
               /\ At(Event("warning", "gateway")) < At(Event("cache", "serpro"))
          ELSE ~Has("cache", "gateway")

\* PMSP, the gateway and SERPRO each asked once, the first two having failed
C15_Witness ==
    /\ Resolved
    /\ fonte = "serpro"
    /\ Count(Event("net", "pmsp_pj")) = 1 /\ Has("warning", "pmsp_pj")
    /\ Count(Event("net", "gateway")) = 1 /\ Has("warning", "gateway")
    /\ Count(Event("net", "serpro")) = 1

\* the general flow has run for the current document
GeneralRan == pc \in {"done", "append", "crashed"} /\ fonte \in GeneralSteps

\* the steps of the general flow that come after fn
After(fn) == IF fn = "gateway" THEN {"serpro", "demo"} ELSE {"demo"}

\* C17: in the general flow each provider that was attempted and failed
\* gives exactly one warning, shown before the next provider or the demo step
\* is tried; a provider that is not configured is not attempted and gives
\* none; and after a warning the flow goes on to a result.
C17_FailuresSurfaced ==
    \A fn \in {"gateway", "serpro"} :
        /\ Count(Event("warning", fn)) <= 1
        /\ Has("raised", fn) => Has("warning", fn)
        /\ GeneralRan /\ Has("cache", fn) /\ fonte # fn => Has("warning", fn)
        /\ Has("warning", fn) =>
              /\ Has("cache", fn)
              /\ At(Event("cache", fn)) < At(Event("warning", fn))
              /\ \A k \in 1..Len(trace) :
                    trace[k].who \in After(fn) => At(Event("warning", fn)) < k
              /\ GeneralRan /\ payload.ok /\ fonte \in After(fn)
        /\ ~Configured(fn) => \A k \in 1..Len(trace) : trace[k].who # fn

\* the gateway's request failed, SERPRO's payload could not be normalised:
\* two warnings, each before the next step, then the demo record
C17_Witness ==
    /\ GeneralRan
    /\ fonte = "demo"
    /\ Has("raised", "gateway")
    /\ Has("returned", "serpro")
    /\ At(Event("warning", "gateway")) < At(Event("cache", "serpro"))
    /\ At(Event("warning", "serpro")) < At(Event("demo", "demo"))

-----------------------------------------------------------------------------
(* Properties of the alias resolution *)

IdentifierAliases == <<"documento", "cpf", "cnpj">>

NameAliases == <<"nome", "razao_social", "razaoSocial">>

StatusAliases == <<"situacao", "status">>

\* the value of the first of the aliases that the body holds, else default
FirstPresent(aliases, default) ==
    LET S == {k \in 1..Len(aliases) : Present(aliases[k])} IN
    IF S = {} THEN default
    ELSE Get(body, aliases[CHOOSE k \in S : \A j \in S : k <= j])

\* the value of the first of the aliases whose value is not empty, else default
FirstNonEmpty(aliases, default) ==
    LET S == {k \in 1..Len(aliases) : Truthy(Get(body, aliases[k]))} IN
    IF S = {} THEN default
    ELSE Get(body, aliases[CHOOSE k \in S : \A j \in S : k <= j])

\* the record normalize_payload builds when select gives each field's value
Canonical(select(_, _)) ==
    LET pend == select(PendingAliases, List(<<>>)) IN
    /\ payload.rec.documento = only_digits(select(IdentifierAliases, Str(doc)).s)
    /\ payload.rec.nome = select(NameAliases, Str(Placeholder))
    /\ payload.rec.situacao = upper(select(StatusAliases, Str(Placeholder)).s)
    /\ payload.rec.pendencias = (IF pend.t = "map" THEN List(<<pend>>) ELSE pend)

-----------------------------------------------------------------------------
(* Properties of the requests *)

\* C18: a file with no document of 11 or 14 digits ends the batch with an
\* error before any provider is called and with no report; and the batch
\* ends with that error only when the file has no such document.
C18_NoValidInputAborts ==
    mode = "batch" =>
        /\ Has("error", "no_valid_input") =>
              /\ consent
              /\ ValidRows = {}
              /\ pc = "done"
              /\ trace = <<Event("error", "no_valid_input")>>
              /\ docs = <<>> /\ out_rows = <<>> /\ ~payload.ok
        /\ lookups > 0 /\ consent /\ ValidRows = {} => Has("error", "no_valid_input")

\* a file of two rows, neither a CPF nor a CNPJ
C18_Witness ==
    /\ mode = "batch"
    /\ consent
    /\ Len(csv.rows) = 2
    /\ ValidRows = {}
    /\ pc = "done"
    /\ trace = <<Event("error", "no_valid_input")>>

\* C19: in a batch with PMSP on, the birth date handed to resolve_pmsp for a
\* CPF is the dtnasc cell of the row of the file the CPF was read from,
\* whatever blank or invalid documents stand between the valid ones.
C19_BirthDateFromSourceRow ==
    /\ mode = "batch"
    /\ pmsp_on
    /\ pc \in {"pmsp", "general", "append"}
    /\ is_cpf(doc)
    /\ csv.has_dtnasc
    => dtnasc = strip(CellText(csv.rows[NthValidRow(i)].dtnasc))

\* a provider was consulted or the demo record built
LookedUp == \E k \in 1..Len(trace) : trace[k].ev \in {"cache", "net", "demo"}

\* C20: on both pages nothing is looked up (no PMSP, gateway or SERPRO call,
\* no demo record) unless the consent box of the request is ticked; without
\* it the request ends with an error and gives no result.
C20_ConsentGate ==
    /\ LookedUp => consent
    /\ pc \in {"pmsp", "general", "append", "crashed"} => consent
    /\ payload.ok \/ out_rows # <<>> => consent
    /\ lookups > 0 /\ ~consent =>
          /\ pc = "done"
          /\ Len(trace) = 1
          /\ trace[1].ev = "error"
          /\ ~payload.ok /\ fonte = NoFonte /\ out_rows = <<>>

\* a CPF submitted with the box not ticked
C20_Witness ==
    /\ mode = "single"
    /\ lookups > 0
    /\ ~consent
    /\ is_cpf(doc)
    /\ pc = "done"
    /\ trace = <<Event("error", "consent")>>

====
